---- MODULE Spec2Model ----
(***************************************************************************)
(* Request execution pipeline of the IPTU API Go client (package iptuapi): *)
(* Client.doRequest with its retry loop, backoff wait, cancellation,       *)
(* rate-limit extraction and error classification.                         *)
(*                                                                         *)
(* One logical call on a freshly constructed Client is modelled as a small *)
(* state machine over pc:                                                  *)
(*   idle -> loop -> (wait ->) send -> inflight -> recv -> loop | done     *)
(* A panic unwinding doRequest ends the call with ret = Panic.             *)
(* Calls running concurrently on one Client are modelled apart (SpecRace), *)
(* one access to a shared field of the Client per step.                    *)
(* Header values are strings, modelled as sequences of one-character       *)
(* strings, so that strconv.Atoi is modelled by what it does.              *)
(* Durations are integers in an abstract unit; BackoffFactor is an         *)
(* integer.                                                                *)
(***************************************************************************)
EXTENDS Integers, Sequences, FiniteSets, TLC

VARIABLES
    retryConfig,    \* Client.retryConfig (read-only during execution)
    RateLimit,      \* Client.RateLimit: Nil or a RateLimitInfo record
    LastRequestID,  \* Client.LastRequestID
    pc,             \* position of the running doRequest call
    ctx,            \* the caller's context: "live", "done" (cancelled or past
                    \* its deadline) or "nil"
    jsonBody,       \* json.Marshal(body): <<>> when body == nil
    readPos,        \* bytes already read from reqBody (the shared bytes.Reader)
    attempt,        \* loop variable of doRequest
    lastErr,        \* local lastErr of doRequest
    ret,            \* value returned by doRequest (NoReturn while running)
    resp,           \* response handed back by httpClient.Do, NoResp otherwise
    reqs,           \* history of this call: the outcome of each httpClient.Do
    sentBody,       \* history: body of the latest request the server observed
    cancelledAt,    \* history: where the call was, and how many requests the
                    \* server had observed, when the context was cancelled
    delay,          \* local delay of doRequest: the latest backoff delay
    calls,          \* calls running concurrently on the Client: for each its
                    \* position in extractRateLimit / handleErrorResponse,
                    \* its response and the error fields loaded so far
    result,         \* the value result points to (the caller's target of
                    \* json.Unmarshal)
    heap            \* Clients built by NewClient and the http.Client values
                    \* they point to, with the options each was built from

vars == <<retryConfig, RateLimit, LastRequestID, pc, ctx, jsonBody, readPos,
          attempt, lastErr, ret, resp, reqs, sentBody, cancelledAt, delay,
          calls, result, heap>>

(***************************************************************************)
(* Bounds of the model.                                                    *)
(***************************************************************************)
MaxRetriesBound == 2
MaxBodyLen == 2
NumCalls == 2
MaxDelayIndex == 5
MaxBackoffIndex == 1030
Beyond == 1000

(***************************************************************************)
(* Strings and strconv.Atoi.                                               *)
(***************************************************************************)
Digits == <<"0", "1", "2", "3", "4", "5", "6", "7", "8", "9">>

IsDigit(ch) == \E i \in 1..10 : Digits[i] = ch

DigitVal(ch) == (CHOOSE i \in 1..10 : Digits[i] = ch) - 1

AllDigits(s) == \A i \in 1..Len(s) : IsDigit(s[i])

RECURSIVE DigitsValue(_)
DigitsValue(s) ==
    IF Len(s) = 0 THEN 0
    ELSE 10 * DigitsValue(SubSeq(s, 1, Len(s) - 1)) + DigitVal(s[Len(s)])

\* strconv.Atoi / strconv.ParseInt(s, 10, 64): an optional sign followed by
\* one or more decimal digits; a syntax error yields the value 0 and an error.
Atoi(s) ==
    LET signed == Len(s) > 0 /\ s[1] \in {"+", "-"}
        digits == IF signed THEN SubSeq(s, 2, Len(s)) ELSE s
    IN  IF Len(digits) = 0 \/ ~AllDigits(digits)
        THEN [val |-> 0, ok |-> FALSE]
        ELSE [val |-> IF signed /\ s[1] = "-" THEN 0 - DigitsValue(digits)
                      ELSE DigitsValue(digits),
              ok |-> TRUE]

(***************************************************************************)
(* Retry configuration.                                                    *)
(***************************************************************************)
DefaultRetryableStatus == {429, 500, 502, 503, 504}

RetryableSets == {DefaultRetryableStatus, {}, {401, 500}}

RetryConfigs ==
    [MaxRetries : -1..MaxRetriesBound,
     InitialDelay : {0, 1},
     MaxDelay : {3},
     BackoffFactor : {2},
     RetryableStatus : RetryableSets]

isRetryable(statusCode) == statusCode \in retryConfig.RetryableStatus

RECURSIVE Pow(_, _)
Pow(b, e) == IF e = 0 THEN 1 ELSE b * Pow(b, e - 1)

(***************************************************************************)
(* calculateDelay computes in float64 and converts the result to a         *)
(* Duration (an int64).  A float64 is finite, +Inf or NaN; a finite one is *)
(* kept as a whole number, exactly below Beyond, and Beyond stands for     *)
(* every finite value from there on: no InitialDelay or MaxDelay of the    *)
(* retry policies is as large.                                             *)
(***************************************************************************)
Float(v) == [class |-> "finite", val |-> v]

PosInf == [class |-> "+Inf", val |-> 0]

NaN == [class |-> "NaN", val |-> 0]

\* a float64 has no finite value of 2^1024 or more
MaxExponent == 1024

\* math.MinInt64 and math.MaxInt64 nanoseconds as the least and the greatest
\* integer of the model
MinDuration == -2147483647 - 1

MaxDuration == 2147483647

\* the binary exponent of a whole x >= 1
RECURSIVE Log2(_)
Log2(x) == IF x < 2 THEN 0 ELSE 1 + Log2(x \div 2)

\* math.Pow(x, y) for a whole x >= 1 and a whole y >= 0: +Inf when x^y is
\* 2^1024 or more.  With Log2(x) for log2(x) this is exact for x a power of
\* two, and for any x as long as y * (Log2(x) + 1) < MaxExponent; the retry
\* policies use no other factor and index.
MathPow(x, y) ==
    IF y * Log2(x) >= MaxExponent THEN PosInf
    ELSE IF x = 1 THEN Float(1)
    ELSE IF y * Log2(x) > Log2(Beyond) THEN Float(Beyond)
    ELSE Float(Pow(x, y))

\* float64(d) * f for a Duration d >= 0: 0 * +Inf is NaN
Times(d, f) ==
    IF f.class = "+Inf" THEN (IF d = 0 THEN NaN ELSE PosInf)
    ELSE IF d * f.val > Beyond THEN Float(Beyond)
    ELSE Float(d * f.val)

\* f > float64(d): every comparison with NaN is false
Greater(f, d) ==
    CASE f.class = "NaN" -> FALSE
      [] f.class = "+Inf" -> TRUE
      [] OTHER -> f.val > d

\* time.Duration(f): the conversion of a value no int64 represents succeeds
\* with an implementation-dependent result, math.MinInt64 on amd64, and 0
\* for NaN and the nearest int64 for +Inf on arm64
Duration(f) ==
    CASE f.class = "NaN" -> {MinDuration, 0}
      [] f.class = "+Inf" -> {MinDuration, MaxDuration}
      [] OTHER -> {f.val}

\* mutant: the delay grows from the first retry on
calculateDelayFromOne(k) ==
    LET d == retryConfig.InitialDelay * Pow(retryConfig.BackoffFactor, k + 1)
    IN  {IF d > retryConfig.MaxDelay THEN retryConfig.MaxDelay ELSE d}

\* the Durations calculateDelay(k) can return
calculateDelay(k) ==
    LET d == Times(retryConfig.InitialDelay, MathPow(retryConfig.BackoffFactor, k))
    IN  Duration(IF Greater(d, retryConfig.MaxDelay)
                 THEN Float(retryConfig.MaxDelay)
                 ELSE d)


(***************************************************************************)
(* Responses handed back by httpClient.Do.                                 *)
(***************************************************************************)
Nil == [kind |-> "nil"]

NoResp == [status |-> 0]

Statuses == {200, 400, 401, 403, 404, 418, 422, 429, 500, 503}

\* the statuses a specification of the retry loop draws from: one success,
\* the statuses the classifier names, and one it does not
RetryStatuses == {200, 400, 401, 403, 404, 418, 422, 429, 500}

LimitHeaders == {<<>>, <<"1", "0">>, <<"x">>}
RemainingHeaders == {<<>>, <<"9">>}
ResetHeaders == {<<>>, <<"5">>, <<"7", "s">>}
RequestIDs == {"", "req-1", "req-2"}
RetryAfterHeaders == {<<>>, <<"6", "0">>}

\* body: "json" (a JSON document of the expected shape), "garbage" (bytes
\* that are not JSON) or "unreadable" (io.ReadAll fails).
Bodies == {"json", "garbage", "unreadable"}

\* further bodies that can be read: "bare" (the JSON document {}, with no
\* detail, required_plan or errors) and "empty" (no bytes at all)
ReadableBodies == {"json", "bare", "garbage", "empty"}

\* Retry-After accompanies a 429; a body that cannot be read is tried on one
\* success and one error status.
Plausible(r) ==
    /\ r.retryAfter # <<>> => r.status = 429
    /\ r.body = "unreadable" => r.status \in {200, 401, 500}

\* every combination of the rate-limit headers
HeaderResponses ==
    {r \in [status : {200, 429, 500}, limit : LimitHeaders,
            remaining : RemainingHeaders, reset : ResetHeaders,
            requestID : RequestIDs, retryAfter : RetryAfterHeaders,
            body : Bodies] : Plausible(r)}

\* every status, with all or none of the rate-limit headers; only a success
\* body is tried as bytes that are not JSON
StatusResponses ==
    {r \in [status : RetryStatuses, limit : {<<>>, <<"1", "0">>},
            remaining : {<<>>, <<"9">>}, reset : {<<>>, <<"5">>},
            requestID : {"", "req-1"}, retryAfter : {<<>>}, body : Bodies] :
        /\ Plausible(r)
        /\ r.body = "garbage" => r.status = 200
        /\ (r.limit = <<>>) = (r.remaining = <<>>)
        /\ (r.limit = <<>>) = (r.reset = <<>>)
        /\ (r.limit = <<>>) = (r.requestID = "")}

\* a success and a retryable failure, without headers
PlainResponses ==
    {r \in [status : {200, 500}, limit : {<<>>}, remaining : {<<>>},
            reset : {<<>>}, requestID : {""}, retryAfter : {<<>>},
            body : {"json"}] : TRUE}

(***************************************************************************)
(* Errors.  kind is the Go type of the error value.                        *)
(***************************************************************************)
APIErrorOf(kind, statusCode, message, requestID, retryAfter, limit, remaining, requiredPlan, errors) ==
    [kind |-> kind, StatusCode |-> statusCode, Message |-> message,
     RequestID |-> requestID, RetryAfter |-> retryAfter, Limit |-> limit,
     Remaining |-> remaining, RequiredPlan |-> requiredPlan, Errors |-> errors]

\* *url.Error returned by httpClient.Do; cause is "net" or "ctx"
TransportError(cause) == [kind |-> "url.Error", cause |-> cause]

\* error of io.ReadAll(resp.Body)
ReadError(cause) == [kind |-> "read", cause |-> cause]

\* ctx.Err(): context.Canceled or context.DeadlineExceeded
CtxErr == [kind |-> "context"]

\* error of json.Unmarshal(respBody, result)
DecodeError == [kind |-> "json.SyntaxError"]

\* error of json.Unmarshal for a number that does not fit its field
TypeError == [kind |-> "json.UnmarshalTypeError"]

\* error of url.Parse, json.Marshal or http.NewRequestWithContext
BuildError == [kind |-> "build"]

\* a runtime panic (nil pointer dereference) unwinding doRequest
Panic == [kind |-> "panic"]

NoReturn == [kind |-> "running"]

(***************************************************************************)
(* extractRateLimit: the client's RateLimit and LastRequestID after the    *)
(* headers of r have been read.                                            *)
(***************************************************************************)
\* time.Unix(sec, nsec): the instant sec seconds and nsec nanoseconds after
\* the epoch, with the nanoseconds brought into [0, 999999999]
Unix(sec, nsec) ==
    [sec |-> sec + (nsec \div 1000000000), nsec |-> nsec % 1000000000]

RateLimitInfo(limit, remaining, reset) ==
    [kind |-> "RateLimitInfo", Limit |-> limit, Remaining |-> remaining,
     Reset |-> reset, ResetTime |-> Unix(reset, 0)]

extractRateLimit(r, rateLimit) ==
    [RateLimit |->
        IF r.limit # <<>> /\ r.remaining # <<>> /\ r.reset # <<>>
        THEN RateLimitInfo(Atoi(r.limit).val, Atoi(r.remaining).val, Atoi(r.reset).val)
        ELSE rateLimit,
     LastRequestID |-> r.requestID]

(***************************************************************************)
(* handleErrorResponse: the error for a non-2xx response r, given the      *)
(* client's RateLimit and LastRequestID at the time it runs.               *)
(***************************************************************************)
DefaultMessage(statusCode) ==
    CASE statusCode = 401 -> "API Key invalida ou expirada"
      [] statusCode = 403 -> "Plano nao autorizado para este recurso"
      [] statusCode = 404 -> "Recurso nao encontrado"
      [] statusCode = 429 -> "Limite de requisicoes excedido"
      [] OTHER -> "Erro na API"

ErrorKind(statusCode) ==
    CASE statusCode = 401 -> "AuthenticationError"
      [] statusCode = 403 -> "ForbiddenError"
      [] statusCode = 404 -> "NotFoundError"
      [] statusCode = 429 -> "RateLimitError"
      [] statusCode \in {400, 422} -> "ValidationError"
      [] statusCode \in {500, 502, 503, 504} -> "ServerError"
      [] OTHER -> "APIError"

\* errResp after json.Unmarshal(body, &errResp), whose error is dropped: the
\* fields of the document, and zero values when the body is not JSON
ErrResp(body) ==
    IF body = "json"
    THEN [Detail |-> "detail", RequiredPlan |-> "pro",
          Errors |-> <<[Field |-> "cidade", Message |-> "invalida"]>>]
    ELSE [Detail |-> "", RequiredPlan |-> "", Errors |-> <<>>]

handleErrorResponse(r, rateLimit, lastRequestID) ==
    LET errResp == ErrResp(r.body)
        message == IF errResp.Detail = "" THEN DefaultMessage(r.status)
                   ELSE errResp.Detail
    IN  IF r.status = 429
        THEN IF rateLimit = Nil
             THEN Panic
             ELSE APIErrorOf("RateLimitError", r.status, message, lastRequestID,
                             IF r.retryAfter # <<>> THEN Atoi(r.retryAfter).val ELSE 0,
                             rateLimit.Limit, rateLimit.Remaining, "", <<>>)
        ELSE APIErrorOf(ErrorKind(r.status), r.status, message, lastRequestID, 0, 0, 0,
                        IF r.status = 403 THEN errResp.RequiredPlan ELSE "",
                        IF r.status \in {400, 422} THEN errResp.Errors ELSE <<>>)

\* the type tests of the package
IsNotFound(e) == e.kind = "NotFoundError"
IsRateLimit(e) == e.kind = "RateLimitError"
IsAuthError(e) == e.kind = "AuthenticationError"
IsForbidden(e) == e.kind = "ForbiddenError"
\* mutant: a test of the status code instead of the type
IsServerErrorByStatus(e) ==
    "StatusCode" \in DOMAIN e /\ e.StatusCode \in 500..599

IsServerError(e) == e.kind = "ServerError"

\* mutant: the client's configured set decides
IsRetryableByPolicy(e) == isRetryable(e.StatusCode)

\* (*APIError).IsRetryable, promoted to every classified error
IsRetryable(e) ==
    LET statuses == <<429, 500, 502, 503, 504>>
    IN  \E i \in 1..Len(statuses) : e.StatusCode = statuses[i]

IsAPIError(e) ==
    e.kind \in {"AuthenticationError", "ForbiddenError", "NotFoundError",
                "RateLimitError", "ValidationError", "ServerError", "APIError"}

\* an error whose cause is the context's error
IsCancelled(e) ==
    \/ e = CtxErr
    \/ e.kind \in {"url.Error", "read"} /\ e.cause = "ctx"


(***************************************************************************)
(* History of a call.  An outcome records one httpClient.Do: whether the   *)
(* request reached the server, the status answered (0: none, -1: still in  *)
(* flight) and what became of the response body ("" without a response).   *)
(***************************************************************************)
Outcome(sent, status, body) == [sent |-> sent, status |-> status, body |-> body]

NotSent == Outcome(FALSE, 0, "")
InFlight == Outcome(TRUE, -1, "")
NoAnswer == Outcome(TRUE, 0, "")

\* number of requests the server observed
Observed(h) == Cardinality({i \in 1..Len(h) : h[i].sent})

NotCancelled == [pc |-> "", sent |-> 0]

\* the goroutines that may call the Client at the same time
CallIDs == 1..NumCalls

\* a call that has not yet received its response
IdleCall == [pc |-> "idle", resp |-> NoResp, requestID |-> "", limit |-> 0,
             err |-> NoReturn]

(***************************************************************************)
(* doRequest.                                                              *)
(***************************************************************************)
ctxDone == ctx = "done"

\* bodies json.Marshal can produce: at least one byte
JSONBodies(maxLen) == {[i \in 1..n |-> i] : n \in 1..maxLen}

\* for attempt := 0; attempt <= c.retryConfig.MaxRetries; attempt++
LoopCond(att) == att <= retryConfig.MaxRetries

\* mutant: a failed Do is retried only under a policy that retries statuses
ShouldRetryTransportIfConfigured(att) ==
    retryConfig.RetryableStatus # {} /\ att < retryConfig.MaxRetries

\* if attempt < c.retryConfig.MaxRetries { continue } after a failed Do
ShouldRetryTransport(att) == att < retryConfig.MaxRetries

\* mutant: the delay is computed from the absolute attempt number
BackoffIndexAbsolute(att) == att

\* delay := c.calculateDelay(attempt - 1): the retry index of attempt att
BackoffIndex(att) == att - 1

\* mutant: every failed status is retried while attempts remain
ShouldRetryAnyStatus(statusCode, att) == att < retryConfig.MaxRetries

\* if c.isRetryable(resp.StatusCode) && attempt < c.retryConfig.MaxRetries
ShouldRetryStatus(statusCode, att) ==
    isRetryable(statusCode) /\ att < retryConfig.MaxRetries

\* http.NewRequestWithContext(ctx, method, u.String(), reqBody) with reqBody a
\* *bytes.Reader: the request carries the bytes the reader has not yet
\* delivered (ContentLength = reqBody.Len()), and http.NoBody when none is left.
RequestBody(body, pos) == SubSeq(body, pos + 1, Len(body))

\* the bytes of reqBody the transport has read once the request has reached
\* the server: all of a body that fits the write buffer, part of a larger one.
ReadPosAfterSend(body, pos) ==
    IF pos = Len(body) THEN {pos} ELSE (pos + 1)..Len(body)

Return(e) ==
    /\ pc' = "done"
    /\ ret' = e

\* continue: attempt++ and back to the loop condition
Continue ==
    /\ pc' = "loop"
    /\ attempt' = attempt + 1
    /\ ret' = ret

\* httpClient.Do returned err
DoFailed(err) ==
    /\ lastErr' = err
    /\ IF ShouldRetryTransport(attempt)
       THEN Continue
       ELSE Return(err) /\ attempt' = attempt

\* mutant: the read error is not kept in lastErr
ReadFailedKeepsLastErr(err) ==
    /\ lastErr' = lastErr
    /\ Continue

\* mutant: only 200 is a success
IsSuccessOnly200(statusCode) == statusCode = 200

\* if resp.StatusCode >= 200 && resp.StatusCode < 300
IsSuccess(statusCode) == statusCode >= 200 /\ statusCode < 300

\* json.Unmarshal(respBody, result): nil, or the error of the decoder
Unmarshal(body) == IF body \in {"json", "bare"} THEN Nil ELSE DecodeError

(***************************************************************************)
(* json.Unmarshal(respBody, result) for a result with a string, an int and *)
(* a float64 field (ValuationResult: Metodo, ComparaveisUtilizados,        *)
(* ValorEstimado; a number of a map[string]interface{} result is decoded   *)
(* as ValorEstimado is).  A member of the document is its token: a string  *)
(* token is the characters from quote to quote, a number token the decimal *)
(* digits of an integer, and <<>> stands for a member that is absent.      *)
(* Numbers are held in binary, most significant bit first and without      *)
(* leading zeros (zero is <<>>), so that 64-bit values can be compared.    *)
(***************************************************************************)
\* the width of the significand of a float64, and of an int without its sign
Float64Significand == 53
IntMagnitude == 63

DigitVals(s) == [i \in 1..Len(s) |-> DigitVal(s[i])]

RECURSIVE HalfDigits(_, _)
HalfDigits(v, carry) ==
    IF v = <<>> THEN <<>>
    ELSE LET cur == carry * 10 + v[1] IN
         <<cur \div 2>> \o HalfDigits(Tail(v), cur % 2)

RECURSIVE BitsOf(_)
BitsOf(v) ==
    IF \A i \in 1..Len(v) : v[i] = 0 THEN <<>>
    ELSE BitsOf(HalfDigits(v, 0)) \o <<v[Len(v)] % 2>>

RECURSIVE Increment(_)
Increment(m) ==
    IF m = <<>> THEN <<1>>
    ELSE IF m[Len(m)] = 0 THEN SubSeq(m, 1, Len(m) - 1) \o <<1>>
    ELSE Increment(SubSeq(m, 1, Len(m) - 1)) \o <<0>>

\* strconv.ParseFloat(token, 64) of an integer token: the nearest float64,
\* ties to the even significand
ParseFloat(bits) ==
    IF Len(bits) <= Float64Significand THEN bits
    ELSE LET m == SubSeq(bits, 1, Float64Significand)
             rest == SubSeq(bits, Float64Significand + 1, Len(bits))
             half == rest[1] = 1 /\ \A i \in 2..Len(rest) : rest[i] = 0
             up == rest[1] = 1 /\ (~half \/ m[Float64Significand] = 1)
         IN  (IF up THEN Increment(m) ELSE m) \o [i \in 1..Len(rest) |-> 0]

\* strconv.ParseInt(token, 10, 64) of a token without sign
ParseInt(bits) ==
    IF Len(bits) <= IntMagnitude THEN [val |-> bits, ok |-> TRUE]
    ELSE [val |-> <<>>, ok |-> FALSE]

\* 12, 2^63 - 1 and 2^63
IntTokens ==
    {<<"1", "2">>,
     <<"9", "2", "2", "3", "3", "7", "2", "0", "3", "6", "8", "5", "4", "7", "7",
       "5", "8", "0", "7">>,
     <<"9", "2", "2", "3", "3", "7", "2", "0", "3", "6", "8", "5", "4", "7", "7",
       "5", "8", "0", "8">>}

\* 0, 5000000, 2^53, 2^53 + 1 and 2^53 + 2
FloatTokens ==
    {<<"0">>, <<"5", "0", "0", "0", "0", "0", "0">>,
     <<"9", "0", "0", "7", "1", "9", "9", "2", "5", "4", "7", "4", "0", "9", "9", "2">>,
     <<"9", "0", "0", "7", "1", "9", "9", "2", "5", "4", "7", "4", "0", "9", "9", "3">>,
     <<"9", "0", "0", "7", "1", "9", "9", "2", "5", "4", "7", "4", "0", "9", "9", "4">>}

\* the conversions of the number tokens the specifications draw, computed
\* once
Conversions ==
    {[token |-> t, int |-> ParseInt(BitsOf(DigitVals(t))),
      float |-> ParseFloat(BitsOf(DigitVals(t)))] : t \in IntTokens \cup FloatTokens}

\* the number token decoded into an int field
ParseIntToken(token) ==
    IF \E c \in Conversions : c.token = token
    THEN (CHOOSE c \in Conversions : c.token = token).int
    ELSE ParseInt(BitsOf(DigitVals(token)))

\* the number token decoded into a float64 field
ParseFloatToken(token) ==
    IF \E c \in Conversions : c.token = token
    THEN (CHOOSE c \in Conversions : c.token = token).float
    ELSE ParseFloat(BitsOf(DigitVals(token)))

\* the characters of a string token between its quotes, escapes resolved
RECURSIVE Unescape(_)
Unescape(t) ==
    IF t = <<>> THEN <<>>
    ELSE IF t[1] = "\\" /\ Len(t) >= 2
    THEN <<IF t[2] = "n" THEN "\n" ELSE t[2]>> \o Unescape(SubSeq(t, 3, Len(t)))
    ELSE <<t[1]>> \o Unescape(Tail(t))

Unquote(t) == Unescape(SubSeq(t, 2, Len(t) - 1))

\* the encoder of the server (encoding/json of a string)
RECURSIVE Escape(_)
Escape(v) ==
    IF v = <<>> THEN <<>>
    ELSE (CASE v[1] = "\"" -> <<"\\", "\"">>
            [] v[1] = "\\" -> <<"\\", "\\">>
            [] v[1] = "\n" -> <<"\\", "n">>
            [] OTHER -> <<v[1]>>) \o Escape(Tail(v))

Quote(v) == <<"\"">> \o Escape(v) \o <<"\"">>

\* the document the server writes for the values v
Encode(v) ==
    [metodo |-> Quote(v.Metodo),
     comparaveis_utilizados |-> v.ComparaveisUtilizados,
     valor_estimado |-> v.ValorEstimado]

\* var result ValuationResult: the zero value
ZeroResult == [Metodo |-> <<>>, ComparaveisUtilizados |-> <<>>, ValorEstimado |-> <<>>]

\* sampleValuationResponse of the tests
SampleValues ==
    [Metodo |-> <<"c">>, ComparaveisUtilizados |-> <<"1", "2">>,
     ValorEstimado |-> <<"5", "0", "0", "0", "0", "0", "0">>]

\* the document {}
EmptyDocument == [metodo |-> <<>>, comparaveis_utilizados |-> <<>>, valor_estimado |-> <<>>]

\* the JSON document in the body of r: the one the specification draws, or
\* the document of the expected shape
DocumentOf(r) ==
    IF "doc" \in DOMAIN r THEN r.doc
    ELSE IF r.body = "json" THEN Encode(SampleValues)
    ELSE EmptyDocument

\* json.Unmarshal(respBody, result) with result pointing to target: the error
\* returned and the value of the target afterwards.  A document that is not
\* JSON leaves the target alone; a number that does not fit its field is
\* skipped, the other members are decoded, and the error is returned.
Decode(r, target) ==
    IF Unmarshal(r.body) # Nil THEN [err |-> Unmarshal(r.body), result |-> target]
    ELSE LET doc == DocumentOf(r)
             n == ParseIntToken(doc.comparaveis_utilizados)
         IN  [err |-> IF doc.comparaveis_utilizados # <<>> /\ ~n.ok
                      THEN TypeError ELSE Nil,
              result |->
                [Metodo |-> IF doc.metodo = <<>> THEN target.Metodo
                            ELSE Unquote(doc.metodo),
                 ComparaveisUtilizados |->
                    IF doc.comparaveis_utilizados = <<>> \/ ~n.ok
                    THEN target.ComparaveisUtilizados ELSE n.val,
                 ValorEstimado |->
                    IF doc.valor_estimado = <<>> THEN target.ValorEstimado
                    ELSE ParseFloatToken(doc.valor_estimado)]]

\* io.ReadAll(resp.Body) returned err: lastErr = err; continue
ReadFailed(err) ==
    /\ lastErr' = err
    /\ Continue

(***************************************************************************)
(* NewClient and its options.  The heap holds the Client values, by name,  *)
(* and the http.Client values they point to: the one NewClient allocates   *)
(* for Client c is named c, "h1" is an http.Client of the caller           *)
(* (&http.Client{}, Timeout 0) and "nil" is the nil pointer.  Durations    *)
(* are in milliseconds here.                                               *)
(***************************************************************************)
MaxOptions == 2

ClientIDs == {"c1", "c2"}

NilPtr == "nil"

defaultTimeout == 30000

defaultBaseURL == "https://iptuapi.com.br/api/v1"

\* "iptuapi-go/" + Version
DefaultUserAgent == "iptuapi-go/2.1.2"

DefaultRetryConfig ==
    [MaxRetries |-> 3, InitialDelay |-> 500, MaxDelay |-> 10000,
     BackoffFactor |-> 2, RetryableStatus |-> DefaultRetryableStatus]

\* &DefaultLogger{Enabled: false}
DefaultLogger == [kind |-> "DefaultLogger", Enabled |-> FALSE]

\* &RetryConfig{MaxRetries: 0} of the tests
CustomRetryConfig ==
    [MaxRetries |-> 0, InitialDelay |-> 0, MaxDelay |-> 0, BackoffFactor |-> 0,
     RetryableStatus |-> {}]

CustomLogger == [kind |-> "custom", Enabled |-> TRUE]

EmptyHeap ==
    [clients |-> [c \in ClientIDs |-> Nil],
     httpClients |-> [h \in ClientIDs \cup {"h1"} |->
                        IF h = "h1" THEN [Timeout |-> 0] ELSE Nil],
     opts |-> [c \in ClientIDs |-> <<>>],
     receiver |-> NilPtr,
     params |-> Nil,
     passed |-> Nil,
     request |-> Nil]

\* the closures the option functions return
WithBaseURL(baseURL) == [name |-> "WithBaseURL", baseURL |-> baseURL]
WithTimeout(timeout) == [name |-> "WithTimeout", timeout |-> timeout]
WithHTTPClient(httpClient) == [name |-> "WithHTTPClient", httpClient |-> httpClient]
WithRetry(config) == [name |-> "WithRetry", config |-> config]
WithLogger(logger) == [name |-> "WithLogger", logger |-> logger]
WithUserAgent(userAgent) == [name |-> "WithUserAgent", userAgent |-> userAgent]

Options ==
    {WithBaseURL("https://custom.api.com"), WithTimeout(60000),
     WithHTTPClient("h1"), WithHTTPClient(NilPtr),
     WithRetry(CustomRetryConfig), WithRetry(Nil),
     WithLogger(CustomLogger), WithLogger(Nil),
     WithUserAgent("custom-agent/1.0"), WithUserAgent("")}

\* the options that touch an http.Client
TransportOptions == {WithTimeout(60000), WithHTTPClient("h1")}

OptionSeqs(options) == UNION {[1..n -> options] : n \in 0..MaxOptions}

\* opt(c): st.client is *c, st.httpClients the http.Client values, and
\* st.panicked is set by c.httpClient.Timeout = timeout with c.httpClient nil
ApplyOption(opt, st) ==
    CASE opt.name = "WithBaseURL" -> [st EXCEPT !.client.baseURL = opt.baseURL]
      [] opt.name = "WithTimeout" ->
            IF st.client.httpClient = NilPtr
            THEN [st EXCEPT !.panicked = TRUE]
            ELSE [st EXCEPT !.httpClients[st.client.httpClient].Timeout = opt.timeout]
      [] opt.name = "WithHTTPClient" -> [st EXCEPT !.client.httpClient = opt.httpClient]
      [] opt.name = "WithRetry" -> [st EXCEPT !.client.retryConfig = opt.config]
      [] opt.name = "WithLogger" -> [st EXCEPT !.client.logger = opt.logger]
      [] opt.name = "WithUserAgent" -> [st EXCEPT !.client.userAgent = opt.userAgent]

\* for _, opt := range opts { opt(c) }
RECURSIVE ApplyOptions(_, _)
ApplyOptions(opts, st) ==
    IF opts = <<>> \/ st.panicked THEN st
    ELSE ApplyOptions(Tail(opts), ApplyOption(opts[1], st))

\* NewClient(apiKey, opts...) building the Client named c: the heap
\* afterwards.  A panic leaves no Client, and leaves what the options before
\* it wrote to an http.Client of the caller.
NewClient(h, c, apiKey, opts) ==
    LET c0 == [apiKey |-> apiKey, baseURL |-> defaultBaseURL, httpClient |-> c,
               retryConfig |-> DefaultRetryConfig, logger |-> DefaultLogger,
               userAgent |-> DefaultUserAgent, RateLimit |-> Nil,
               LastRequestID |-> ""]
        st == ApplyOptions(opts,
                [client |-> c0,
                 httpClients |-> [h.httpClients EXCEPT ![c] = [Timeout |-> defaultTimeout]],
                 panicked |-> FALSE])
    IN  [h EXCEPT !.clients[c] = IF st.panicked THEN Panic ELSE st.client,
                  !.httpClients = st.httpClients,
                  !.opts[c] = opts]

\* mutant: the snapshot and the request id kept in package-level variables,
\* which every Client reads
extractRateLimitGlobal(clients, c, r) ==
    LET ex == extractRateLimit(r, clients[c].RateLimit) IN
    [d \in DOMAIN clients |->
        IF clients[d] \in {Nil, Panic} THEN clients[d]
        ELSE [clients[d] EXCEPT !.RateLimit = ex.RateLimit,
                                !.LastRequestID = ex.LastRequestID]]

\* c.extractRateLimit(resp) with receiver c: the Clients afterwards
extractRateLimitOn(clients, c, r) ==
    LET ex == extractRateLimit(r, clients[c].RateLimit) IN
    [clients EXCEPT ![c].RateLimit = ex.RateLimit,
                    ![c].LastRequestID = ex.LastRequestID]

\* a program calls NewClient
Construct(c, options) ==
    /\ heap.clients[c] = Nil
    /\ \E opts \in OptionSeqs(options) :
        heap' = NewClient(heap, c, "test_api_key", opts)
    /\ UNCHANGED <<retryConfig, RateLimit, LastRequestID, pc, ctx, jsonBody, readPos,
                   attempt, lastErr, ret, resp, reqs, sentBody, cancelledAt, delay,
                   calls, result>>

\* a call on the Client named c has read a response: extractRateLimit, run
\* by doRequest unless io.ReadAll failed
Exchange(c, R) ==
    /\ heap.clients[c] \notin {Nil, Panic}
    /\ \E r \in R :
        heap' = [heap EXCEPT
                    !.clients = IF r.body = "unreadable" THEN @
                                ELSE extractRateLimitOn(@, c, r),
                    !.receiver = c]
    /\ UNCHANGED <<retryConfig, RateLimit, LastRequestID, pc, ctx, jsonBody, readPos,
                   attempt, lastErr, ret, resp, reqs, sentBody, cancelledAt, delay,
                   calls, result>>

(***************************************************************************)
(* The endpoint methods that take a pointer to a parameter struct.  The    *)
(* heap holds the struct of the caller (params), its value when the method *)
(* was called (passed) and what the method hands to doRequest (request),   *)
(* which encodes the query and marshals the body without writing to them.  *)
(***************************************************************************)
CidadeSaoPaulo == "sp"

CidadeBeloHorizonte == "bh"

Cidades == {"", CidadeSaoPaulo, CidadeBeloHorizonte}

ConsultaEnderecoParams ==
    [kind : {"ConsultaEnderecoParams"}, Logradouro : {"", "Avenida Paulista"},
     Numero : {"", "1000"}, Complemento : {""}, Cidade : Cidades,
     IncluirHistorico : BOOLEAN, IncluirComparaveis : BOOLEAN,
     IncluirZoneamento : BOOLEAN]

ValuationParams ==
    [kind : {"ValuationParams"}, AreaTerreno : {250}, AreaConstruida : {180},
     Bairro : {"Pinheiros"}, Zona : {"ZM"}, TipoUso : {"Residencial"},
     TipoPadrao : {"Medio"}, AnoConstrucao : {0, 2010}, Cidade : Cidades]

SimuladorParams ==
    [kind : {"SimuladorParams"}, ValorIPTU : {0, 1000}, Cidade : Cidades,
     ValorVenal : {0, 500000}]

ParamStructs == ConsultaEnderecoParams \cup ValuationParams \cup SimuladorParams

\* the caller fills a parameter struct and calls a method with a pointer to it
CallerFills ==
    /\ heap.params = Nil
    /\ \E p \in ParamStructs : heap' = [heap EXCEPT !.params = p, !.passed = p]
    /\ UNCHANGED <<retryConfig, RateLimit, LastRequestID, pc, ctx, jsonBody, readPos,
                   attempt, lastErr, ret, resp, reqs, sentBody, cancelledAt, delay,
                   calls, result>>

\* the method with parameter struct p is about to run
Called(kind) == heap.params # Nil /\ heap.params.kind = kind /\ heap.request = Nil

\* params.Set(key, value) for each pair
URLValues(pairs) == {kv \in pairs : kv[2] # "-"}

Request(method, endpoint, params, body) ==
    [method |-> method, endpoint |-> endpoint, params |-> params, body |-> body]

ConsultaEndereco ==
    /\ Called("ConsultaEnderecoParams")
    /\ LET p == heap.params
           params == URLValues({
               <<"logradouro", p.Logradouro>>,
               <<"numero", IF p.Numero # "" THEN p.Numero ELSE "-">>,
               <<"complemento", IF p.Complemento # "" THEN p.Complemento ELSE "-">>,
               <<"cidade", IF p.Cidade # "" THEN p.Cidade ELSE CidadeSaoPaulo>>,
               <<"incluir_historico", IF p.IncluirHistorico THEN "true" ELSE "-">>,
               <<"incluir_comparaveis", IF p.IncluirComparaveis THEN "true" ELSE "-">>,
               <<"incluir_zoneamento", IF p.IncluirZoneamento THEN "true" ELSE "-">>})
       IN  heap' = [heap EXCEPT
                !.request = Request("GET", "/consulta/endereco", params, Nil)]
    /\ UNCHANGED <<retryConfig, RateLimit, LastRequestID, pc, ctx, jsonBody, readPos,
                   attempt, lastErr, ret, resp, reqs, sentBody, cancelledAt, delay,
                   calls, result>>

ValuationEstimate ==
    /\ Called("ValuationParams")
    /\ heap' = [heap EXCEPT
            !.request = Request("POST", "/valuation/estimate", Nil, heap.params)]
    /\ UNCHANGED <<retryConfig, RateLimit, LastRequestID, pc, ctx, jsonBody, readPos,
                   attempt, lastErr, ret, resp, reqs, sentBody, cancelledAt, delay,
                   calls, result>>

\* if p.Cidade == "" { p.Cidade = string(CidadeSaoPaulo) }, a write through the
\* caller's pointer, and then doRequest with body p
IPTUToolsSimulador ==
    /\ Called("SimuladorParams")
    /\ LET p == IF heap.params.Cidade = ""
                THEN [heap.params EXCEPT !.Cidade = CidadeSaoPaulo]
                ELSE heap.params
       IN  heap' = [heap EXCEPT
                !.params = p,
                !.request = Request("POST", "/iptu-tools/simulador", Nil, p)]
    /\ UNCHANGED <<retryConfig, RateLimit, LastRequestID, pc, ctx, jsonBody, readPos,
                   attempt, lastErr, ret, resp, reqs, sentBody, cancelledAt, delay,
                   calls, result>>

\* the RateLimit and LastRequestID of a Client no call has used yet
FreshClient == [RateLimit |-> Nil, LastRequestID |-> ""]

\* a Client in one of the given states, with one of the given retry policies,
\* before doRequest is called
InitFrom(configs, clients) ==
    /\ retryConfig \in configs
    /\ \E cl \in clients :
        /\ RateLimit = cl.RateLimit
        /\ LastRequestID = cl.LastRequestID
    /\ pc = "idle"
    /\ ctx = "live"
    /\ jsonBody = <<>>
    /\ readPos = 0
    /\ attempt = 0
    /\ lastErr = Nil
    /\ ret = NoReturn
    /\ resp = NoResp
    /\ reqs = <<>>
    /\ sentBody = <<>>
    /\ cancelledAt = NotCancelled
    /\ delay = 0
    /\ calls = [i \in CallIDs |-> IdleCall]
    /\ result = ZeroResult
    /\ heap = EmptyHeap

InitWith(configs) == InitFrom(configs, {FreshClient})

\* doRequest is called: url.Parse, json.Marshal, var lastErr error
StartCall(bodies) ==
    /\ pc = "idle"
    /\ \E body \in {<<>>} \cup bodies, c \in {"live", "done", "nil"},
          build \in {"ok", "url.Parse", "json.Marshal"} :
        /\ build = "json.Marshal" => body # <<>>
        /\ ctx' = c
        /\ cancelledAt' = IF c = "done" THEN [pc |-> "start", sent |-> 0]
                           ELSE NotCancelled
        /\ jsonBody' = IF build = "ok" THEN body ELSE <<>>
        /\ IF build = "ok"
           THEN pc' = "loop" /\ ret' = NoReturn
           ELSE Return(BuildError)
    /\ readPos' = 0
    /\ attempt' = 0
    /\ lastErr' = Nil
    /\ resp' = NoResp
    /\ reqs' = <<>>
    /\ sentBody' = <<>>
    /\ delay' = 0
    /\ result' = ZeroResult
    /\ UNCHANGED <<heap, calls, retryConfig, RateLimit, LastRequestID>>

\* the loop condition and, for attempt > 0, the entry into the select on
\* time.After(delay) and ctx.Done()
LoopHead ==
    /\ pc = "loop"
    /\ IF ~LoopCond(attempt)
       THEN Return(lastErr) /\ delay' = delay
       ELSE IF attempt = 0
       THEN pc' = "send" /\ ret' = ret /\ delay' = delay
       ELSE /\ delay' \in calculateDelay(BackoffIndex(attempt))
            /\ \/ ctxDone /\ Return(CtxErr)
               \/ delay' <= 0 /\ pc' = "send" /\ ret' = ret
               \/ ~ctxDone /\ delay' > 0 /\ pc' = "wait" /\ ret' = ret
    /\ UNCHANGED <<heap, result, calls, retryConfig, RateLimit, LastRequestID, ctx, jsonBody, readPos,
                   attempt, lastErr, resp, reqs, sentBody, cancelledAt>>

\* case <-time.After(delay): the goroutine blocked in the select is woken by
\* the timer
TimerFires ==
    /\ pc = "wait"
    /\ ~ctxDone
    /\ pc' = "send"
    /\ UNCHANGED <<heap, result, calls, delay, retryConfig, RateLimit, LastRequestID, ctx, jsonBody, readPos,
                   attempt, lastErr, ret, resp, reqs, sentBody, cancelledAt>>

\* mutant: a blind sleep, which goes on to send when the delay is over
WaitIgnoresCancel ==
    /\ pc = "wait"
    /\ ctxDone
    /\ pc' = "send"
    /\ UNCHANGED <<heap, result, calls, delay, retryConfig, RateLimit, LastRequestID, ctx, jsonBody, readPos,
                   attempt, lastErr, ret, resp, reqs, sentBody, cancelledAt>>

\* case <-ctx.Done(): return ctx.Err()
WaitCancelled ==
    /\ pc = "wait"
    /\ ctxDone
    /\ Return(CtxErr)
    /\ UNCHANGED <<heap, result, calls, delay, retryConfig, RateLimit, LastRequestID, ctx, jsonBody, readPos,
                   attempt, lastErr, resp, reqs, sentBody, cancelledAt>>

\* the caller cancels the context, or its deadline passes
Cancel ==
    /\ pc \in {"loop", "wait", "send", "inflight", "recv"}
    /\ ctx = "live"
    /\ ctx' = "done"
    /\ cancelledAt' = [pc |-> pc, sent |-> Observed(reqs)]
    /\ UNCHANGED <<heap, result, calls, delay, retryConfig, RateLimit, LastRequestID, pc, jsonBody, readPos,
                   attempt, lastErr, ret, resp, reqs, sentBody>>

\* http.NewRequestWithContext fails (nil context): return err
NewRequestFails ==
    /\ pc = "send"
    /\ ctx = "nil"
    /\ Return(BuildError)
    /\ UNCHANGED <<heap, result, calls, delay, retryConfig, RateLimit, LastRequestID, ctx, jsonBody, readPos,
                   attempt, lastErr, resp, reqs, sentBody, cancelledAt>>

\* mutant: the request is built without the context (http.NewRequest), so it
\* is sent whether or not the context is done
SendWithoutContext ==
    /\ pc = "send"
    /\ ctx # "nil"
    /\ reqs' = Append(reqs, InFlight)
    /\ sentBody' = RequestBody(jsonBody, readPos)
    /\ readPos' \in ReadPosAfterSend(jsonBody, readPos)
    /\ pc' = "inflight"
    /\ UNCHANGED <<heap, result, calls, delay, retryConfig, RateLimit, LastRequestID, ctx, jsonBody, attempt,
                   lastErr, ret, resp, cancelledAt>>

\* httpClient.Do(req): the request reaches the server
Send ==
    /\ pc = "send"
    /\ ctx = "live"
    /\ reqs' = Append(reqs, InFlight)
    /\ sentBody' = RequestBody(jsonBody, readPos)
    /\ readPos' \in ReadPosAfterSend(jsonBody, readPos)
    /\ pc' = "inflight"
    /\ UNCHANGED <<heap, result, calls, delay, retryConfig, RateLimit, LastRequestID, ctx, jsonBody, attempt,
                   lastErr, ret, resp, cancelledAt>>

\* httpClient.Do(req) fails before any request reaches the server: the
\* transport finds the context done, or the connection cannot be made
SendFails ==
    /\ pc = "send"
    /\ ctx # "nil"
    /\ reqs' = Append(reqs, NotSent)
    /\ DoFailed(TransportError(IF ctxDone THEN "ctx" ELSE "net"))
    /\ UNCHANGED <<heap, result, calls, delay, retryConfig, RateLimit, LastRequestID, ctx, jsonBody, readPos,
                   resp, sentBody, cancelledAt>>

\* httpClient.Do(req) fails with the request in flight: the context is done,
\* or the connection breaks / Client.Timeout passes
InflightFails ==
    /\ pc = "inflight"
    /\ reqs' = [reqs EXCEPT ![Len(reqs)] = NoAnswer]
    /\ DoFailed(TransportError(IF ctxDone THEN "ctx" ELSE "net"))
    /\ UNCHANGED <<heap, result, calls, delay, retryConfig, RateLimit, LastRequestID, ctx, jsonBody, readPos,
                   resp, sentBody, cancelledAt>>

\* httpClient.Do(req) returns a response.  Once the context is done the
\* transport returns the context's error, unless the response headers had
\* arrived already, and then reading the body fails.
Arrive(R) ==
    /\ pc = "inflight"
    /\ \E r \in R :
        /\ ctxDone => r.body = "unreadable"
        /\ resp' = r
        /\ reqs' = [reqs EXCEPT ![Len(reqs)] = Outcome(TRUE, r.status, r.body)]
    /\ pc' = "recv"
    /\ UNCHANGED <<heap, result, calls, delay, retryConfig, RateLimit, LastRequestID, ctx, jsonBody, readPos,
                   attempt, lastErr, ret, sentBody, cancelledAt>>

\* mutant: the headers are extracted before the body is read
HandleResponseExtractsFirst ==
    /\ pc = "recv"
    /\ LET ex == extractRateLimit(resp, RateLimit) IN
        /\ RateLimit' = ex.RateLimit
        /\ LastRequestID' = ex.LastRequestID
        /\ IF resp.body = "unreadable"
           THEN /\ ReadFailed(ReadError(IF ctxDone THEN "ctx" ELSE "net"))
                /\ result' = result
           ELSE IF IsSuccess(resp.status)
                   THEN /\ Return(Decode(resp, result).err)
                        /\ result' = Decode(resp, result).result
                        /\ UNCHANGED <<attempt, lastErr>>
                   ELSE LET e == handleErrorResponse(resp, ex.RateLimit, ex.LastRequestID) IN
                        /\ result' = result
                        /\ IF e = Panic
                           THEN Return(Panic) /\ UNCHANGED <<attempt, lastErr>>
                           ELSE /\ lastErr' = e
                                /\ IF ShouldRetryStatus(resp.status, attempt)
                                   THEN Continue
                                   ELSE Return(e) /\ attempt' = attempt
    /\ resp' = NoResp
    /\ UNCHANGED <<heap, calls, delay, retryConfig, ctx, jsonBody, readPos, reqs, sentBody, cancelledAt>>

\* io.ReadAll, extractRateLimit, json.Unmarshal or handleErrorResponse, and
\* the decision to retry
HandleResponse ==
    /\ pc = "recv"
    /\ IF resp.body = "unreadable"
       THEN /\ ReadFailed(ReadError(IF ctxDone THEN "ctx" ELSE "net"))
            /\ UNCHANGED <<RateLimit, LastRequestID, result>>
       ELSE LET ex == extractRateLimit(resp, RateLimit) IN
            /\ RateLimit' = ex.RateLimit
            /\ LastRequestID' = ex.LastRequestID
            /\ IF IsSuccess(resp.status)
               THEN /\ Return(Decode(resp, result).err)
                    /\ result' = Decode(resp, result).result
                    /\ UNCHANGED <<attempt, lastErr>>
               ELSE LET e == handleErrorResponse(resp, ex.RateLimit, ex.LastRequestID) IN
                    /\ result' = result
                    /\ IF e = Panic
                       THEN Return(Panic) /\ UNCHANGED <<attempt, lastErr>>
                       ELSE /\ lastErr' = e
                            /\ IF ShouldRetryStatus(resp.status, attempt)
                               THEN Continue
                               ELSE Return(e) /\ attempt' = attempt
    /\ resp' = NoResp
    /\ UNCHANGED <<heap, calls, delay, retryConfig, ctx, jsonBody, readPos, reqs, sentBody, cancelledAt>>

Init == InitWith(RetryConfigs)

Next ==
    \/ StartCall(JSONBodies(1))
    \/ LoopHead
    \/ TimerFires
    \/ WaitCancelled
    \/ Cancel
    \/ NewRequestFails
    \/ Send
    \/ SendFails
    \/ InflightFails
    \/ Arrive(StatusResponses)
    \/ HandleResponse

Spec == Init /\ [][Next]_vars


(***************************************************************************)
(* Specifications over other inputs: request bodies of every length with a *)
(* plain server, and every combination of rate-limit headers with a short  *)
(* retry loop.                                                             *)
(***************************************************************************)
BodyConfigs ==
    {c \in RetryConfigs :
        c.MaxRetries >= 0 /\ c.RetryableStatus = DefaultRetryableStatus}

InitBody == InitWith(BodyConfigs)

NextBody ==
    \/ StartCall(JSONBodies(MaxBodyLen))
    \/ LoopHead
    \/ TimerFires
    \/ WaitCancelled
    \/ Cancel
    \/ NewRequestFails
    \/ Send
    \/ SendFails
    \/ InflightFails
    \/ Arrive(PlainResponses)
    \/ HandleResponse

SpecBody == InitBody /\ [][NextBody]_vars

HeaderConfigs ==
    {c \in RetryConfigs :
        /\ c.MaxRetries \in {0, 1}
        /\ c.InitialDelay = 1
        /\ c.RetryableStatus = DefaultRetryableStatus}

InitHeaders == InitWith(HeaderConfigs)

NextHeaders ==
    \/ StartCall(JSONBodies(1))
    \/ LoopHead
    \/ TimerFires
    \/ WaitCancelled
    \/ Cancel
    \/ NewRequestFails
    \/ Send
    \/ SendFails
    \/ InflightFails
    \/ Arrive(HeaderResponses)
    \/ HandleResponse

SpecHeaders == InitHeaders /\ [][NextHeaders]_vars

(***************************************************************************)
(* A specification over every class of status and of readable body, with   *)
(* all or none of the rate-limit headers.                                  *)
(***************************************************************************)
ClassifyStatuses ==
    {200, 204, 299, 304, 400, 401, 403, 404, 418, 422, 429, 500, 501, 502,
     503, 504}

ClassifyResponses ==
    {r \in [status : ClassifyStatuses, limit : {<<>>, <<"1", "0">>},
            remaining : {<<>>, <<"9">>}, reset : {<<>>, <<"5">>},
            requestID : {"", "req-1"}, retryAfter : RetryAfterHeaders,
            body : ReadableBodies] :
        /\ Plausible(r)
        /\ (r.limit = <<>>) = (r.remaining = <<>>)
        /\ (r.limit = <<>>) = (r.reset = <<>>)
        /\ (r.limit = <<>>) = (r.requestID = "")}

ClassifyConfigs ==
    {c \in RetryConfigs :
        /\ c.MaxRetries \in {0, 1}
        /\ c.InitialDelay = 0
        /\ c.RetryableStatus = DefaultRetryableStatus}

InitClassify == InitWith(ClassifyConfigs)

NextClassify ==
    \/ StartCall(JSONBodies(1))
    \/ LoopHead
    \/ Cancel
    \/ NewRequestFails
    \/ Send
    \/ SendFails
    \/ InflightFails
    \/ Arrive(ClassifyResponses)
    \/ HandleResponse

SpecClassify == InitClassify /\ [][NextClassify]_vars

(***************************************************************************)
(* A specification of long retry loops under several backoff policies: the *)
(* retry indices 0..MaxDelayIndex are all reached.                         *)
(***************************************************************************)
DelayConfigs ==
    [MaxRetries : {MaxDelayIndex + 1},
     InitialDelay : {0, 1, 2},
     MaxDelay : {3, 10},
     BackoffFactor : {1, 2, 3},
     RetryableStatus : {DefaultRetryableStatus}]

InitDelay == InitWith(DelayConfigs)

NextDelay ==
    \/ StartCall(JSONBodies(1))
    \/ LoopHead
    \/ TimerFires
    \/ WaitCancelled
    \/ Cancel
    \/ NewRequestFails
    \/ Send
    \/ SendFails
    \/ InflightFails
    \/ Arrive(PlainResponses)
    \/ HandleResponse

SpecDelay == InitDelay /\ [][NextDelay]_vars

(***************************************************************************)
(* A specification of one retry under every relation between InitialDelay  *)
(* and MaxDelay: WithRetry accepts any policy.                             *)
(***************************************************************************)
PolicyConfigs ==
    [MaxRetries : {1},
     InitialDelay : {0, 1, 2, 5},
     MaxDelay : {1, 3},
     BackoffFactor : {1, 2, 3},
     RetryableStatus : {DefaultRetryableStatus}]

InitPolicy == InitWith(PolicyConfigs)

NextPolicy ==
    \/ StartCall(JSONBodies(1))
    \/ LoopHead
    \/ TimerFires
    \/ WaitCancelled
    \/ Cancel
    \/ NewRequestFails
    \/ Send
    \/ SendFails
    \/ InflightFails
    \/ Arrive(PlainResponses)
    \/ HandleResponse

SpecPolicy == InitPolicy /\ [][NextPolicy]_vars

(***************************************************************************)
(* Calls running concurrently on one Client.  The Client has no lock:      *)
(* c.RateLimit and c.LastRequestID are plain fields, written by            *)
(* extractRateLimit and read by handleErrorResponse of every call.  Each   *)
(* call is followed from the response it received through these two        *)
(* functions, one access to a shared field per step; the steps of          *)
(* different calls interleave freely.  c.RateLimit is a pointer, stored    *)
(* and loaded as one word; c.RateLimit.Limit and c.RateLimit.Remaining     *)
(* are two loads of it.                                                    *)
(***************************************************************************)
\* two responses with different rate-limit values and request ids, and
\* responses without these headers
RaceResponses ==
    {r \in [status : {200, 429}, limit : {<<>>, <<"1", "0">>, <<"2", "0">>},
            remaining : {<<>>, <<"9">>, <<"8">>}, reset : {<<>>, <<"5">>},
            requestID : {"", "req-1", "req-2"}, retryAfter : {<<>>},
            body : {"json"}] :
        \/ r.limit = <<>> /\ r.remaining = <<>> /\ r.reset = <<>> /\ r.requestID = ""
        \/ r.limit = <<"1", "0">> /\ r.remaining = <<"9">> /\ r.reset = <<"5">>
              /\ r.requestID = "req-1"
        \/ r.limit = <<"2", "0">> /\ r.remaining = <<"8">> /\ r.reset = <<"5">>
              /\ r.requestID = "req-2"}

RaceConfigs ==
    {c \in RetryConfigs :
        /\ c.MaxRetries = 0
        /\ c.InitialDelay = 1
        /\ c.RetryableStatus = DefaultRetryableStatus}

\* the state of the single call followed by the other specifications
callVars == <<retryConfig, pc, ctx, jsonBody, readPos, attempt, lastErr, ret,
              resp, reqs, sentBody, cancelledAt, delay, result>>

\* call i moves on
Goto(i, label) == calls' = [calls EXCEPT ![i].pc = label]

\* call i is done with its response: error e, or Nil
Finish(i, e) == calls' = [calls EXCEPT ![i].pc = "done", ![i].err = e]

\* httpClient.Do and io.ReadAll of call i have returned
Receive(i) ==
    /\ calls[i].pc = "idle"
    /\ \E r \in RaceResponses :
        calls' = [calls EXCEPT ![i].pc = "storeRateLimit", ![i].resp = r]
    /\ UNCHANGED <<heap, callVars, RateLimit, LastRequestID>>

\* extractRateLimit: c.RateLimit = &RateLimitInfo{...}
StoreRateLimit(i) ==
    /\ calls[i].pc = "storeRateLimit"
    /\ RateLimit' = extractRateLimit(calls[i].resp, RateLimit).RateLimit
    /\ Goto(i, "storeRequestID")
    /\ UNCHANGED <<heap, callVars, LastRequestID>>

\* extractRateLimit: c.LastRequestID = resp.Header.Get("X-Request-ID"), and
\* the test of the status in doRequest
StoreRequestID(i) ==
    /\ calls[i].pc = "storeRequestID"
    /\ LastRequestID' = extractRateLimit(calls[i].resp, RateLimit).LastRequestID
    /\ IF IsSuccess(calls[i].resp.status)
       THEN Finish(i, Nil)
       ELSE Goto(i, "loadRequestID")
    /\ UNCHANGED <<heap, callVars, RateLimit>>

\* handleErrorResponse: baseErr := &APIError{..., RequestID: c.LastRequestID}
LoadRequestID(i) ==
    /\ calls[i].pc = "loadRequestID"
    /\ IF calls[i].resp.status = 429
       THEN calls' = [calls EXCEPT ![i].pc = "loadLimit",
                                   ![i].requestID = LastRequestID]
       ELSE Finish(i, handleErrorResponse(calls[i].resp, RateLimit, LastRequestID))
    /\ UNCHANGED <<heap, callVars, RateLimit, LastRequestID>>

\* handleErrorResponse: Limit: c.RateLimit.Limit
LoadLimit(i) ==
    /\ calls[i].pc = "loadLimit"
    /\ IF RateLimit = Nil
       THEN Finish(i, Panic)
       ELSE calls' = [calls EXCEPT ![i].pc = "loadRemaining",
                                   ![i].limit = RateLimit.Limit]
    /\ UNCHANGED <<heap, callVars, RateLimit, LastRequestID>>

\* handleErrorResponse: Remaining: c.RateLimit.Remaining, and the return of
\* the RateLimitError
LoadRemaining(i) ==
    /\ calls[i].pc = "loadRemaining"
    /\ LET e == handleErrorResponse(calls[i].resp, RateLimit, calls[i].requestID) IN
        Finish(i, IF e = Panic THEN Panic ELSE [e EXCEPT !.Limit = calls[i].limit])
    /\ UNCHANGED <<heap, callVars, RateLimit, LastRequestID>>

InitRace == InitWith(RaceConfigs)

NextRace ==
    \/ \E i \in CallIDs : Receive(i)
    \/ \E i \in CallIDs : StoreRateLimit(i)
    \/ \E i \in CallIDs : StoreRequestID(i)
    \/ \E i \in CallIDs : LoadRequestID(i)
    \/ \E i \in CallIDs : LoadLimit(i)
    \/ \E i \in CallIDs : LoadRemaining(i)

SpecRace == InitRace /\ [][NextRace]_vars

(***************************************************************************)
(* The call under fair scheduling: the goroutine running doRequest is      *)
(* scheduled whenever it can take a step, httpClient.Do eventually hands   *)
(* back a response or an error, and a timer that was started eventually    *)
(* fires (or the select returns on ctx.Done()).  The caller is under no    *)
(* obligation to start a call or to cancel.                                *)
(***************************************************************************)
Runs == LoopHead \/ HandleResponse

WaitEnds == TimerFires \/ WaitCancelled

DoCompletes ==
    NewRequestFails \/ Send \/ SendFails \/ InflightFails \/ Arrive(StatusResponses)

Fairness == WF_vars(Runs) /\ WF_vars(WaitEnds) /\ WF_vars(DoCompletes)

\* every number of retries, with and without a wait, under the default set
\* of retryable statuses
FairConfigs == {c \in RetryConfigs : c.RetryableStatus = DefaultRetryableStatus}

InitFair == InitWith(FairConfigs)

SpecFair == InitFair /\ [][Next]_vars /\ Fairness

(***************************************************************************)
(* NewClient with every sequence of at most MaxOptions options.            *)
(***************************************************************************)
InitOptions == InitWith(RaceConfigs)

NextOptions == Construct("c1", Options)

SpecOptions == InitOptions /\ [][NextOptions]_vars

(***************************************************************************)
(* Two Clients, which may share an http.Client, and calls on each of them. *)
(***************************************************************************)
InitClients == InitWith(RaceConfigs)

NextClients ==
    \/ \E c \in ClientIDs : Construct(c, TransportOptions)
    \/ \E c \in ClientIDs : Exchange(c, RaceResponses)

SpecClients == InitClients /\ [][NextClients]_vars

(***************************************************************************)
(* Successful responses with documents of the target's shape: strings with *)
(* characters the encoder escapes, and numbers up to and beyond the        *)
(* integers a float64 and an int hold.                                     *)
(***************************************************************************)
Texts == {<<>>, <<"c">>, <<"a", "\"", "b">>, <<"\\", "n">>, <<"a", "\n">>}

Values == [Metodo : Texts, ComparaveisUtilizados : IntTokens, ValorEstimado : FloatTokens]

DecodeResponses ==
    {[status |-> 200, limit |-> <<>>, remaining |-> <<>>, reset |-> <<>>,
      requestID |-> "", retryAfter |-> <<>>, body |-> "json", doc |-> Encode(v)] :
        v \in Values}

InitDecode == InitWith(RaceConfigs)

NextDecode ==
    \/ StartCall(JSONBodies(1))
    \/ LoopHead
    \/ Cancel
    \/ NewRequestFails
    \/ Send
    \/ SendFails
    \/ InflightFails
    \/ Arrive(DecodeResponses)
    \/ HandleResponse

SpecDecode == InitDecode /\ [][NextDecode]_vars

(***************************************************************************)
(* A specification of a call on a Client that earlier calls have used: its *)
(* RateLimit and LastRequestID are those an earlier response left.         *)
(***************************************************************************)
UsedClients ==
    {FreshClient} \cup
    {extractRateLimit(r, Nil) : r \in {s \in StatusResponses : s.body = "json"}}

InitFrame == InitFrom(FairConfigs, UsedClients)

SpecFrame == InitFrame /\ [][Next]_vars

(***************************************************************************)
(* A specification of calculateDelay alone, over the retry indices of a    *)
(* policy with many retries: each step is the next failed attempt of such  *)
(* a policy computing its delay.                                           *)
(***************************************************************************)
BackoffConfigs ==
    [MaxRetries : {MaxBackoffIndex + 1},
     InitialDelay : {0, 1, 2},
     MaxDelay : {0, 3, 10},
     BackoffFactor : {1, 2, 4},
     RetryableStatus : {DefaultRetryableStatus}]

InitBackoff == InitWith(BackoffConfigs)

\* attempt++ and delay := c.calculateDelay(attempt - 1)
NextDelayComputed ==
    /\ pc = "idle"
    /\ ShouldRetryTransport(attempt)
    /\ attempt' = attempt + 1
    /\ delay' \in calculateDelay(BackoffIndex(attempt'))
    /\ UNCHANGED <<heap, result, calls, retryConfig, RateLimit, LastRequestID, pc, ctx,
                   jsonBody, readPos, lastErr, ret, resp, reqs, sentBody, cancelledAt>>

SpecBackoff == InitBackoff /\ [][NextDelayComputed]_vars

(***************************************************************************)
(* A specification of the endpoint methods called with a parameter struct. *)
(***************************************************************************)
InitEndpoints == InitWith(RaceConfigs)

NextEndpoints ==
    \/ CallerFills
    \/ ConsultaEndereco
    \/ ValuationEstimate
    \/ IPTUToolsSimulador

SpecEndpoints == InitEndpoints /\ [][NextEndpoints]_vars

(***************************************************************************)
(* Vocabulary of the properties.                                           *)
(***************************************************************************)
Returned == pc = "done"

\* doRequest returned a non-nil error
IsError(e) == e \notin {Nil, NoReturn, Panic}

\* a response was received in full: headers and body
FullyRead(o) == o.sent /\ o.status > 0 /\ o.body # "unreadable"

\* the loop body has finished with the i-th Do of this call
Handled(i) == i < Len(reqs) \/ pc \notin {"inflight", "recv"}

\* the kind of error the i-th Do of this call gave rise to
ObservedKind(o) ==
    IF ~o.sent \/ o.status = 0 THEN "url.Error"
    ELSE IF o.body = "unreadable" THEN "read"
    ELSE IF o.status >= 200 /\ o.status < 300 THEN "json.SyntaxError"
    ELSE ErrorKind(o.status)

\* a step in which doRequest deals with the response it holds
HandlesResponse == pc = "recv" /\ pc' # "recv"

NeverRetried == {400, 401, 403, 404, 422}

ServerOrRateLimit == {429, 500, 502, 503, 504}

(***************************************************************************)
(* C1: with MaxRetries = N >= 0 and a status s of the retryable set, if    *)
(* the server answers every attempt of a call with s and the context is    *)
(* never cancelled, the server observes exactly N+1 requests and the call  *)
(* returns an error.                                                       *)
(***************************************************************************)
C1_AllAttemptsAnswered(s) ==
    /\ Returned
    /\ retryConfig.MaxRetries >= 0
    /\ cancelledAt = NotCancelled
    /\ Len(reqs) > 0
    /\ \A i \in 1..Len(reqs) : reqs[i].sent /\ reqs[i].status = s

C1_ExactlyNPlusOneRequests ==
    \A s \in retryConfig.RetryableStatus :
        C1_AllAttemptsAnswered(s) =>
            /\ Observed(reqs) = retryConfig.MaxRetries + 1
            /\ IsError(ret)

(***************************************************************************)
(* C2: for every retry policy, a response with status 400, 401, 403, 404   *)
(* or 422 ends the call at once: its classified error is returned and no   *)
(* retry follows.                                                          *)
(***************************************************************************)
C2_EndsCall(i) ==
    /\ i = Len(reqs)
    /\ Returned
    /\ ret.kind = ErrorKind(reqs[i].status)
    /\ ret.StatusCode = reqs[i].status

C3_RetriedWhileAttemptsRemain ==
    \A i \in 1..Len(reqs) :
        (FullyRead(reqs[i]) /\ reqs[i].status \in ServerOrRateLimit /\ Handled(i))
            => IF i - 1 < retryConfig.MaxRetries
               THEN ~(i = Len(reqs) /\ Returned /\ ret.kind \in {"ServerError", "RateLimitError", "panic"})
               ELSE C2_EndsCall(i)

(***************************************************************************)
(* C4: when a request body is supplied, every attempt of a call, each      *)
(* retry included, sends the same non-empty JSON body bytes as the first   *)
(* attempt.                                                                *)
(***************************************************************************)
C4_SameBodyOnEveryAttempt ==
    (jsonBody # <<>> /\ Observed(reqs) > 0) => sentBody = jsonBody

(***************************************************************************)
(* C5: if the context is cancelled while doRequest waits in a backoff      *)
(* delay, the call returns the context's error without waiting out the     *)
(* delay, and no request is sent after the cancellation.                   *)
(***************************************************************************)
C5_CancelDuringWait ==
    cancelledAt.pc = "wait" =>
        /\ pc \in {"wait", "done"}
        /\ Returned => ret = CtxErr
        /\ Observed(reqs) = cancelledAt.sent

C5_Witness ==
    /\ cancelledAt.pc = "wait"
    /\ Returned
    /\ ret = CtxErr
    /\ attempt < retryConfig.MaxRetries
    /\ Observed(reqs) > 0

C7_CancelledBeforeStart ==
    (cancelledAt.pc = "start" /\ ret # BuildError) =>
        /\ Returned => IsCancelled(ret)
        /\ Observed(reqs) = 0

(***************************************************************************)
(* C8: when a call uses up all its attempts, the error it returns is the   *)
(* error observed on the final attempt, of its original kind; no separate  *)
(* "retries exhausted" kind is returned.                                   *)
(***************************************************************************)
C8_LastErrorSurfaced ==
    (Returned /\ IsError(ret) /\ retryConfig.MaxRetries >= 0
        /\ Len(reqs) = retryConfig.MaxRetries + 1)
        => /\ ret.kind = ObservedKind(reqs[Len(reqs)])
           /\ IsAPIError(ret) => ret.StatusCode = reqs[Len(reqs)].status

C8_Witness ==
    /\ Returned
    /\ retryConfig.MaxRetries = MaxRetriesBound
    /\ Len(reqs) = MaxRetriesBound + 1
    /\ reqs[1].status = 500
    /\ reqs[Len(reqs)].body = "unreadable"
    /\ ret.kind = "read"

(***************************************************************************)
(* C9: if the server answers the first k attempts of a call, k <=          *)
(* MaxRetries, with a retryable status and attempt k+1 with a 2xx response *)
(* and decodable body, the call returns success after exactly k+1          *)
(* requests.                                                               *)
(***************************************************************************)
C9_RetryableAnswer(o) ==
    FullyRead(o) /\ o.status \in retryConfig.RetryableStatus

C9_SuccessAfterRetries ==
    \A n \in 1..Len(reqs) :
        (/\ n <= retryConfig.MaxRetries + 1
         /\ cancelledAt = NotCancelled
         /\ \A i \in 1..(n - 1) : C9_RetryableAnswer(reqs[i])
         /\ Handled(n))
            => \/ /\ C9_RetryableAnswer(reqs[n])
                  /\ n <= retryConfig.MaxRetries
                  /\ ~(Returned /\ n = Len(reqs))
               \/ /\ FullyRead(reqs[n])
                  /\ reqs[n].status >= 200 /\ reqs[n].status < 300
                  /\ reqs[n].body = "json"
                  /\ Returned /\ ret = Nil /\ Observed(reqs) = n
               \/ /\ ~(C9_RetryableAnswer(reqs[n]) /\ n <= retryConfig.MaxRetries)
                  /\ ~(FullyRead(reqs[n]) /\ reqs[n].status >= 200
                        /\ reqs[n].status < 300 /\ reqs[n].body = "json")

(***************************************************************************)
(* C10: the rate-limit snapshot is replaced, with exactly the values of    *)
(* the response, if and only if X-RateLimit-Limit, X-RateLimit-Remaining   *)
(* and X-RateLimit-Reset are all present and each parses as an integer;    *)
(* otherwise the previous snapshot is left unchanged.                      *)
(***************************************************************************)
C10_AllParse(r) ==
    /\ r.limit # <<>> /\ Atoi(r.limit).ok
    /\ r.remaining # <<>> /\ Atoi(r.remaining).ok
    /\ r.reset # <<>> /\ Atoi(r.reset).ok

C10_SnapshotIffAllParse ==
    [][(HandlesResponse /\ resp.body # "unreadable") =>
        RateLimit' = IF C10_AllParse(resp)
                     THEN RateLimitInfo(Atoi(resp.limit).val, Atoi(resp.remaining).val,
                                        Atoi(resp.reset).val)
                     ELSE RateLimit]_vars

(***************************************************************************)
(* C11: for every attempt in which a response is received, whatever its    *)
(* status and whether or not its body can be read, the rate-limit          *)
(* extractor is run on that response before the call retries or returns:   *)
(* the step that deals with the response leaves the client with what       *)
(* extractRateLimit stores for it.                                         *)
(***************************************************************************)
C11_ExtractorRunOnEveryResponse ==
    [][HandlesResponse =>
        /\ RateLimit' = extractRateLimit(resp, RateLimit).RateLimit
        /\ LastRequestID' = extractRateLimit(resp, RateLimit).LastRequestID]_vars

(***************************************************************************)
(* C12: with two or more calls running concurrently on one Client, the     *)
(* Limit and Remaining copied into a RateLimitError are the values of one  *)
(* single response, never a mix of two responses, and no two calls are     *)
(* in the middle of updating the snapshot and the last request id at the   *)
(* same time.                                                              *)
(***************************************************************************)
C12_SnapshotOf(r, limit, remaining) ==
    /\ r.status # 0
    /\ r.limit # <<>> /\ r.remaining # <<>> /\ r.reset # <<>>
    /\ limit = Atoi(r.limit).val
    /\ remaining = Atoi(r.remaining).val

C12_Updating(i) == calls[i].pc = "storeRequestID"

C12_NoTornSnapshot ==
    /\ \A i \in CallIDs :
        calls[i].err.kind = "RateLimitError" =>
            \E j \in CallIDs :
                C12_SnapshotOf(calls[j].resp, calls[i].err.Limit, calls[i].err.Remaining)
    /\ \A i, j \in CallIDs : (C12_Updating(i) /\ C12_Updating(j)) => i = j

(***************************************************************************)
(* C13: the client's RateLimit is either unset or a snapshot whose Limit,  *)
(* Remaining and Reset were all taken from the headers of one single       *)
(* response, with ResetTime the Unix time of Reset; once set it is only    *)
(* replaced by another complete snapshot and never becomes unset again.    *)
(* As a property of every step: RateLimit changes only when a response is  *)
(* dealt with, to the three integers its headers carry, and never to nil.  *)
(***************************************************************************)
C13_CompleteSnapshot ==
    [][/\ RateLimit' # RateLimit =>
            /\ HandlesResponse
            /\ C10_AllParse(resp)
            /\ RateLimit'.kind = "RateLimitInfo"
            /\ RateLimit'.Limit = Atoi(resp.limit).val
            /\ RateLimit'.Remaining = Atoi(resp.remaining).val
            /\ RateLimit'.Reset = Atoi(resp.reset).val
            /\ RateLimit'.ResetTime = Unix(RateLimit'.Reset, 0)
       /\ RateLimit # Nil => RateLimit' # Nil]_vars

(***************************************************************************)
(* C14: whenever a response carries X-Request-ID, the client's             *)
(* LastRequestID equals that value after the response is processed, even   *)
(* when the rate-limit header triple is absent or incomplete, in which     *)
(* case the snapshot stays unchanged.                                      *)
(***************************************************************************)
C14_TripleComplete(r) ==
    r.limit # <<>> /\ r.remaining # <<>> /\ r.reset # <<>>

C14_RequestIDStored ==
    [][(HandlesResponse /\ resp.requestID # "") =>
        /\ LastRequestID' = resp.requestID
        /\ ~C14_TripleComplete(resp) => RateLimit' = RateLimit]_vars

(***************************************************************************)
(* C15: for every non-2xx status the classifier returns exactly one kind:  *)
(* 401 AuthenticationError, 403 ForbiddenError (with required_plan when    *)
(* present), 404 NotFoundError, 429 RateLimitError, 400 and 422            *)
(* ValidationError (with the field errors), 500/502/503/504 ServerError,   *)
(* any other non-2xx status a plain APIError with the raw status and       *)
(* message; and of IsAuthError, IsForbidden, IsNotFound, IsRateLimit and   *)
(* IsServerError at most the one matching that kind is true.               *)
(***************************************************************************)
C15_Kind(statusCode) ==
    CASE statusCode = 401 -> "AuthenticationError"
      [] statusCode = 403 -> "ForbiddenError"
      [] statusCode = 404 -> "NotFoundError"
      [] statusCode = 429 -> "RateLimitError"
      [] statusCode = 400 -> "ValidationError"
      [] statusCode = 422 -> "ValidationError"
      [] statusCode = 500 -> "ServerError"
      [] statusCode = 502 -> "ServerError"
      [] statusCode = 503 -> "ServerError"
      [] statusCode = 504 -> "ServerError"
      [] OTHER -> "APIError"

\* the type tests that hold of e, by the kind each is meant for
C15_Tests(e) ==
    {k \in {"AuthenticationError", "ForbiddenError", "NotFoundError",
            "RateLimitError", "ServerError"} :
        \/ k = "AuthenticationError" /\ IsAuthError(e)
        \/ k = "ForbiddenError" /\ IsForbidden(e)
        \/ k = "NotFoundError" /\ IsNotFound(e)
        \/ k = "RateLimitError" /\ IsRateLimit(e)
        \/ k = "ServerError" /\ IsServerError(e)}

C15_Classified(r, e) ==
    /\ e.kind = C15_Kind(r.status)
    /\ e.StatusCode = r.status
    /\ e.Message = IF r.body = "json" THEN "detail" ELSE DefaultMessage(r.status)
    /\ r.status = 403 => e.RequiredPlan = ErrResp(r.body).RequiredPlan
    /\ r.status \in {400, 422} => e.Errors = ErrResp(r.body).Errors
    /\ C15_Tests(e) \subseteq {C15_Kind(r.status)}

C15_ExactlyOneKind ==
    [][(HandlesResponse /\ resp.body # "unreadable"
            /\ ~(resp.status >= 200 /\ resp.status < 300)) =>
        C15_Classified(resp, lastErr')]_vars

(***************************************************************************)
(* C16: a 429 response yields a RateLimitError whose RetryAfter is the     *)
(* integer value of the Retry-After header (60 for "Retry-After: 60"), 0   *)
(* when the header is absent, and whose Limit and Remaining are the        *)
(* rate-limit values of that same response.                                *)
(***************************************************************************)
C16_RetryAfter(r) ==
    IF r.retryAfter = <<>> THEN 0
    ELSE IF r.retryAfter = <<"6", "0">> THEN 60
    ELSE Atoi(r.retryAfter).val

C16_RateLimitErrorOf(r, e) ==
    /\ e.kind = "RateLimitError"
    /\ e.RetryAfter = C16_RetryAfter(r)
    /\ r.limit # <<>> => e.Limit = Atoi(r.limit).val
    /\ r.remaining # <<>> => e.Remaining = Atoi(r.remaining).val

C16_RateLimitErrorCarriesHeaders ==
    [][(HandlesResponse /\ resp.status = 429 /\ resp.body # "unreadable") =>
        C16_RateLimitErrorOf(resp, lastErr')]_vars

(***************************************************************************)
(* C17: for every non-2xx response whose body is empty or is not valid     *)
(* JSON, the response is still turned into the classified error of the     *)
(* kind given by its status, with a non-empty default message derived from *)
(* the status; a malformed error body never becomes a different failure.   *)
(***************************************************************************)
C17_Malformed(r) ==
    /\ ~(r.status >= 200 /\ r.status < 300)
    /\ r.body \in {"garbage", "empty"}

C17_MalformedBodyStillClassified ==
    [][(HandlesResponse /\ C17_Malformed(resp)) =>
        /\ lastErr'.kind = C15_Kind(resp.status)
        /\ lastErr'.StatusCode = resp.status
        /\ lastErr'.Message # ""
        /\ lastErr'.Message = DefaultMessage(resp.status)
        /\ pc' = "done" => ret' = lastErr']_vars

(***************************************************************************)
(* C18: a response with any status from 200 to 299 is treated as success   *)
(* and its body is decoded into the target; if decoding fails the call     *)
(* returns the decode error at once, as a kind distinct from every HTTP    *)
(* error kind, and sends no further request even when retries remain.      *)
(***************************************************************************)
C18_Decodes(body) == body \in {"json", "bare"}

C18_SuccessOrDecodeError ==
    \A i \in 1..Len(reqs) :
        (/\ FullyRead(reqs[i])
         /\ reqs[i].status \in 200..299
         /\ Handled(i))
            => /\ i = Len(reqs)
               /\ Returned
               /\ C18_Decodes(reqs[i].body) => ret = Nil
               /\ ~C18_Decodes(reqs[i].body) =>
                    /\ ret = DecodeError
                    /\ ~IsAPIError(ret)
                    /\ ~IsCancelled(ret)
                    /\ ret.kind \notin {"url.Error", "read", "build"}

C18_Witness ==
    /\ Returned
    /\ retryConfig.MaxRetries = 1
    /\ Len(reqs) = 1
    /\ reqs[1].status = 204
    /\ reqs[1].body = "empty"
    /\ ret = DecodeError

(***************************************************************************)
(* C19: every error returned by doRequest, whatever its kind (classified   *)
(* HTTP error, transport error, cancellation error, decode failure),       *)
(* carries the client's last-known request id whenever one has been        *)
(* recorded.                                                               *)
(***************************************************************************)
\* the request id a caller finds in an error: the RequestID of the embedded
\* *APIError; the errors of net/http, context and encoding/json have none
C19_RequestIDOf(e) == IF IsAPIError(e) THEN e.RequestID ELSE ""

C19_EveryErrorCarriesRequestID ==
    (Returned /\ IsError(ret) /\ LastRequestID # "") =>
        C19_RequestIDOf(ret) = LastRequestID

(***************************************************************************)
(* C20: calculateDelay(k) equals min(InitialDelay * BackoffFactor^k,       *)
(* MaxDelay) for every retry index k >= 0, the same for the same k and     *)
(* policy, and this is the delay doRequest waits before retry k + 1; with  *)
(* InitialDelay = 1, BackoffFactor = 2 and MaxDelay = 10 the delays for    *)
(* k = 0..5 are 1, 2, 4, 8, 10, 10.                                        *)
(***************************************************************************)
C20_Min(a, b) == IF a < b THEN a ELSE b

\* min(InitialDelay * BackoffFactor^k, MaxDelay) in exact arithmetic: the
\* product is not computed where it is 0 or beyond every MaxDelay
C20_Formula(k) ==
    IF retryConfig.InitialDelay = 0 THEN 0
    ELSE IF retryConfig.BackoffFactor = 1
    THEN C20_Min(retryConfig.InitialDelay, retryConfig.MaxDelay)
    ELSE IF k * Log2(retryConfig.BackoffFactor) > Log2(Beyond)
    THEN retryConfig.MaxDelay
    ELSE C20_Min(retryConfig.InitialDelay * Pow(retryConfig.BackoffFactor, k),
                 retryConfig.MaxDelay)

C20_Example == <<1, 2, 4, 8, 10, 10>>

C20_IsExamplePolicy ==
    /\ retryConfig.InitialDelay = 1
    /\ retryConfig.BackoffFactor = 2
    /\ retryConfig.MaxDelay = 10

\* the delay of the current attempt has been computed, by doRequest or on
\* its own
C20_DelayComputed ==
    attempt > 0 /\ pc \in {"idle", "wait", "send", "inflight", "recv"}

C20_BackoffDelay ==
    /\ \A k \in 0..MaxDelayIndex : calculateDelay(k) = {C20_Formula(k)}
    /\ C20_DelayComputed => delay = C20_Formula(attempt - 1)
    /\ C20_IsExamplePolicy =>
        /\ \A k \in 0..5 : calculateDelay(k) = {C20_Example[k + 1]}
        /\ (C20_DelayComputed /\ attempt <= 6) => delay = C20_Example[attempt]

C22_WaitIsDelayOfRetryIndex ==
    /\ (pc = "send" /\ reqs = <<>>) => (attempt = 0 /\ delay = 0)
    /\ pc = "wait" => (attempt >= 1 /\ Len(reqs) = attempt)
    /\ C20_DelayComputed => delay \in calculateDelay(attempt - 1)

C22_Witness ==
    /\ pc = "wait"
    /\ attempt = 1
    /\ lastErr.kind = "RateLimitError"
    /\ lastErr.RetryAfter = 60
    /\ delay = retryConfig.InitialDelay
    /\ delay # lastErr.RetryAfter

(***************************************************************************)
(* C23: a transport-level failure (no response received) is followed by a  *)
(* backoff wait and another attempt whenever attempts remain,              *)
(* independently of the configured retryable status set; when it happens   *)
(* on the final attempt the transport error itself is returned.  Only a    *)
(* cancellation of the context during the wait ends the call earlier,      *)
(* with the context's error.                                               *)
(***************************************************************************)
C23_TransportFailure(o) == o.status = 0

C23_TransportFailureRetried ==
    \A i \in 1..Len(reqs) :
        (C23_TransportFailure(reqs[i]) /\ Handled(i)) =>
            IF i - 1 < retryConfig.MaxRetries
            THEN \/ i < Len(reqs)
                 \/ /\ pc \in {"loop", "wait", "send"}
                    /\ attempt = i
                    /\ lastErr.kind = "url.Error"
                 \/ /\ Returned
                    /\ ret = CtxErr
                    /\ cancelledAt # NotCancelled
            ELSE /\ i = Len(reqs)
                 /\ Returned
                 /\ ret.kind = "url.Error"
                 /\ ret = lastErr

C23_Witness ==
    /\ retryConfig.RetryableStatus = {}
    /\ retryConfig.MaxRetries = MaxRetriesBound
    /\ retryConfig.InitialDelay = 1
    /\ cancelledAt = NotCancelled
    /\ Len(reqs) = MaxRetriesBound + 1
    /\ \A i \in 1..Len(reqs) : C23_TransportFailure(reqs[i])
    /\ Returned
    /\ ret.kind = "url.Error"

(***************************************************************************)
(* C24: in doRequest a non-2xx response is followed by another attempt if  *)
(* and only if its status is a member of the policy's configured           *)
(* RetryableStatus set and the attempt index is below MaxRetries;          *)
(* otherwise its classified error is returned immediately.                 *)
(***************************************************************************)
C24_ErrorResponse(o) ==
    FullyRead(o) /\ ~(o.status >= 200 /\ o.status < 300)

\* the call has gone on to the attempt after the i-th, or was cancelled
\* while waiting for it
C24_AnotherAttempt(i) ==
    \/ i < Len(reqs)
    \/ pc \in {"loop", "wait", "send"} /\ attempt = i
    \/ Returned /\ ret = CtxErr /\ cancelledAt # NotCancelled

C24_RetriedIffConfigured ==
    \A i \in 1..Len(reqs) :
        (C24_ErrorResponse(reqs[i]) /\ Handled(i)) =>
            IF reqs[i].status \in retryConfig.RetryableStatus
                /\ i - 1 < retryConfig.MaxRetries
            THEN C24_AnotherAttempt(i)
            ELSE C2_EndsCall(i)

(***************************************************************************)
(* C25: APIError.IsRetryable() is true exactly when StatusCode is one of   *)
(* 429, 500, 502, 503, 504 and false for every other status (for example   *)
(* 400, 401, 404), independently of the client's configured                *)
(* RetryableStatus.                                                        *)
(***************************************************************************)
C25_Retryable(statusCode) ==
    \/ statusCode = 429
    \/ statusCode = 500
    \/ statusCode = 502
    \/ statusCode = 503
    \/ statusCode = 504

C25_StatusCodes == ClassifyStatuses \cup {0, 100, 199, 428, 430, 499, 505, 599}

C25_IsRetryableFixedSet ==
    /\ (Returned /\ IsAPIError(ret)) =>
            IsRetryable(ret) = C25_Retryable(ret.StatusCode)
    /\ Returned =>
            \A n \in C25_StatusCodes :
                IsRetryable(APIErrorOf("APIError", n, "", LastRequestID, 0, 0, 0, "", <<>>))
                    = C25_Retryable(n)

C25_Witness ==
    /\ Returned
    /\ ret.kind = "AuthenticationError"
    /\ 401 \in retryConfig.RetryableStatus
    /\ Len(reqs) = MaxRetriesBound + 1
    /\ ~IsRetryable(ret)

(***************************************************************************)
(* C26: IsServerError returns true for the error produced by every 5xx     *)
(* response (every status from 500 to 599) and false for the error         *)
(* produced by any non-5xx response.                                       *)
(***************************************************************************)
\* the step turns the response into an error value
C26_ProducesError ==
    /\ HandlesResponse
    /\ resp.body # "unreadable"
    /\ ~(resp.status >= 200 /\ resp.status < 300)
    /\ lastErr' \notin {Nil, NoReturn, Panic}
    /\ ret' # Panic

C27_Settings(c) ==
    LET cl == heap.clients[c] IN
    [baseURL |-> cl.baseURL,
     timeout |-> IF cl.httpClient = NilPtr THEN -1
                 ELSE heap.httpClients[cl.httpClient].Timeout,
     httpClient |-> cl.httpClient,
     retryConfig |-> cl.retryConfig,
     logger |-> cl.logger,
     userAgent |-> cl.userAgent]

\* the argument of the last option called name among opts, or the default
C27_Given(opts, name, field, default) ==
    LET given == {i \in 1..Len(opts) : opts[i].name = name} IN
    IF given = {} THEN default
    ELSE opts[CHOOSE i \in given : \A j \in given : j <= i][field]

\* Without WithTimeout the timeout is the one the http.Client in use came
\* with: defaultTimeout for the Client's own, the caller's for the caller's.
C27_Expected(c) ==
    LET opts == heap.opts[c]
        h == C27_Given(opts, "WithHTTPClient", "httpClient", c)
    IN
    [baseURL |-> C27_Given(opts, "WithBaseURL", "baseURL", defaultBaseURL),
     timeout |-> C27_Given(opts, "WithTimeout", "timeout",
                           IF h = c THEN defaultTimeout
                           ELSE IF h = NilPtr THEN -1
                           ELSE EmptyHeap.httpClients[h].Timeout),
     httpClient |-> h,
     retryConfig |-> C27_Given(opts, "WithRetry", "config", DefaultRetryConfig),
     logger |-> C27_Given(opts, "WithLogger", "logger", DefaultLogger),
     userAgent |-> C27_Given(opts, "WithUserAgent", "userAgent", DefaultUserAgent)]

\* no option was handed a nil pointer
C27_NoNilArgument(opts) ==
    \A i \in 1..Len(opts) :
        opts[i] \notin {WithHTTPClient(NilPtr), WithRetry(Nil), WithLogger(Nil)}

C27_EachOptionItsOwnSetting ==
    \A c \in ClientIDs :
        (heap.clients[c] # Nil /\ C27_NoNilArgument(heap.opts[c])) =>
            /\ heap.clients[c] # Panic
            /\ \A f \in DOMAIN C27_Expected(c) :
                    C27_Settings(c)[f] = C27_Expected(c)[f]

(***************************************************************************)
(* C28: the rate-limit snapshot and last request id are state of one       *)
(* Client instance only: a call on one Client never changes the RateLimit  *)
(* or LastRequestID of any other Client.                                   *)
(***************************************************************************)
C28_Built(c) == heap.clients[c] \notin {Nil, Panic}

\* the step is a call on the Client named c handling a response
C28_CallOn(c) == C28_Built(c) /\ heap' # heap /\ heap'.receiver = c

C28_OtherClientsUntouched ==
    [][\A c, d \in ClientIDs :
        (c # d /\ C28_CallOn(c) /\ C28_Built(d)) =>
            /\ heap'.clients[d].RateLimit = heap.clients[d].RateLimit
            /\ heap'.clients[d].LastRequestID = heap.clients[d].LastRequestID]_vars

\* both Clients share the caller's http.Client; c1 has a snapshot and a
\* request id from its calls, c2 still has none
C28_Witness ==
    /\ C28_Built("c1") /\ C28_Built("c2")
    /\ heap.clients["c1"].httpClient = "h1"
    /\ heap.clients["c2"].httpClient = "h1"
    /\ heap.receiver = "c1"
    /\ heap.clients["c1"].RateLimit # Nil
    /\ heap.clients["c1"].LastRequestID = "req-2"
    /\ heap.clients["c2"].RateLimit = Nil
    /\ heap.clients["c2"].LastRequestID = ""

(***************************************************************************)
(* C29: decoding a successful 200 response whose JSON body matches the     *)
(* target schema returns no error and yields a result in which every field *)
(* equals the value sent (string content and numeric values preserved      *)
(* exactly).                                                               *)
(***************************************************************************)
\* the number a token of decimal digits denotes
C29_Number(token) == BitsOf(DigitVals(token))

\* the document matches the schema of the target: the member of the int
\* field is a number an int holds
C29_MatchesSchema(v) == Len(C29_Number(v.ComparaveisUtilizados)) <= IntMagnitude

C29_RoundTrip ==
    [][\A v \in Values :
        (/\ HandlesResponse
         /\ resp.status = 200
         /\ "doc" \in DOMAIN resp
         /\ resp.doc = Encode(v)
         /\ C29_MatchesSchema(v)) =>
            /\ ret' = Nil
            /\ result'.Metodo = v.Metodo
            /\ result'.ComparaveisUtilizados = C29_Number(v.ComparaveisUtilizados)
            /\ result'.ValorEstimado = C29_Number(v.ValorEstimado)]_vars

(***************************************************************************)
(* C30: a 429 response is always turned into a returned RateLimitError,    *)
(* also when no rate-limit snapshot has ever been recorded on the client   *)
(* and the 429 response itself carries no (or incomplete) X-RateLimit-*    *)
(* headers; classification never fails or crashes on an unset snapshot.    *)
(***************************************************************************)
\* the error of the 429 is a RateLimitError, returned now or kept as lastErr
\* for the attempts that follow
C30_RateLimitErrorWithoutSnapshot ==
    [][(HandlesResponse /\ resp.status = 429 /\ resp.body # "unreadable") =>
        /\ ret' # Panic
        /\ IsRateLimit(lastErr')
        /\ ret' \in {NoReturn, lastErr'}]_vars

(***************************************************************************)
(* C31: doRequest returns success (nil error) only if during that call at  *)
(* least one request was sent and a 2xx response was received and decoded  *)
(* into the target; this holds for every MaxRetries value, including 0 and *)
(* negative values.                                                        *)
(***************************************************************************)
\* the latest Do of the call was answered by a 2xx response, read in full,
\* whose body json.Unmarshal accepts
C31_DecodedSuccess ==
    /\ Observed(reqs) >= 1
    /\ LET o == reqs[Len(reqs)] IN
        /\ FullyRead(o)
        /\ IsSuccess(o.status)
        /\ Unmarshal(o.body) = Nil

C31_SuccessOnlyAfterDecodedResponse ==
    (Returned /\ ret = Nil) => C31_DecodedSuccess

(***************************************************************************)
(* C32: for every server behaviour and every retry policy, one doRequest   *)
(* call sends at most MaxRetries+1 requests and eventually returns,        *)
(* assuming every send eventually completes or fails and every backoff     *)
(* timer eventually fires.                                                 *)
(***************************************************************************)
\* doRequest has handed a value (nil or an error) back to its caller
C32_ReturnedToCaller == Returned /\ ret \notin {NoReturn, Panic}

C32_BoundedAndReturns ==
    /\ [](Len(reqs) <= retryConfig.MaxRetries + 1)
    /\ (pc = "loop") ~> C32_ReturnedToCaller

(***************************************************************************)
(* C33: a response that carries no X-Request-ID header leaves the          *)
(* previously recorded LastRequestID unchanged, so the last-known request  *)
(* id stays available for later errors.                                    *)
(***************************************************************************)
C33_NoRequestID == HandlesResponse /\ resp.requestID = ""

C33_RequestIDKept ==
    [][C33_NoRequestID =>
        /\ LastRequestID' = LastRequestID
        /\ IsAPIError(lastErr') /\ lastErr' # lastErr =>
                lastErr'.RequestID = LastRequestID]_vars

(***************************************************************************)
(* C34: a doRequest call in which no response is received leaves the       *)
(* client's RateLimit and LastRequestID as they were before the call, and  *)
(* a call that fails to build its request sends nothing.  Stated for each  *)
(* step: every step of doRequest other than the handling of a response     *)
(* whose body was read leaves both fields unchanged, and a call that       *)
(* returns a build error has made no request.                              *)
(***************************************************************************)
C34_ReadsResponse == HandlesResponse /\ resp.body # "unreadable"

C35_EveryResponseHasID ==
    \A j \in CallIDs : calls[j].pc # "idle" => calls[j].resp.requestID # ""

C35_OwnRequestID ==
    C35_EveryResponseHasID =>
        \A i \in CallIDs :
            (calls[i].pc = "done" /\ IsAPIError(calls[i].err)) =>
                calls[i].err.RequestID = calls[i].resp.requestID

(***************************************************************************)
(* C36: for every retry policy with BackoffFactor >= 1 and InitialDelay,   *)
(* MaxDelay >= 0, calculateDelay(k) never exceeds MaxDelay, is never       *)
(* negative, and is non-decreasing in k; once it has reached MaxDelay it   *)
(* stays at MaxDelay for all larger k.                                     *)
(***************************************************************************)
C36_DelayInRangeAndGrowing ==
    C20_DelayComputed =>
        /\ 0 <= delay /\ delay <= retryConfig.MaxDelay
        /\ attempt > 1 =>
            \A b \in calculateDelay(attempt - 2) :
                /\ b <= delay
                /\ b = retryConfig.MaxDelay => delay = retryConfig.MaxDelay

(***************************************************************************)
(* C37: the endpoint methods only read the parameter struct passed by the  *)
(* caller: after a call, for example IPTUToolsSimulador with an empty      *)
(* Cidade, where the default city "sp" is sent, the struct of the caller   *)
(* has the field values it had before the call.                            *)
(***************************************************************************)
C37_ParamsOnlyRead == heap.request # Nil => heap.params = heap.passed

====
